---- MODULE Spec2Model ----
(***************************************************************************)
(* A state-machine model of dll::rbm_trainer                               *)
(* (include/dll/trainer/rbm_trainer.hpp): the generic engine that drives   *)
(* an RBM-like layer through epochs and batches.                           *)
(*                                                                         *)
(* One train call is a sequential procedure; pc is its position.  The      *)
(* template parameters and layer traits are drawn once, in Init, and never *)
(* change.  External collaborators (the per-batch trainer, the layer's     *)
(* init_weights and free_energy, the watcher, the data generator, the      *)
(* random engine) are modelled by what the engine can observe of them:     *)
(* nondeterministic results drawn from small sets.                         *)
(*                                                                         *)
(* Floating point values are exact rationals [num, den]; den = 0 encodes   *)
(* the IEEE results of a division by zero (0/0 = NaN, x/0 = +-inf).        *)
(***************************************************************************)
EXTENDS Integers, Sequences, FiniteSets, TLC

\* ------------------------------------------------------------------ bounds

\* Largest number of samples a caller hands to one train call.
MaxSamples == 3

\* Largest number of samples a caller hands to one train_denoising_auto
\* call.
MaxAutoSamples == 2

\* Largest epoch count of one train call.
MaxEpochs == 2

\* Largest batch size a layer declares (the smallest is 1).
MaxBatchSize == 2

\* ------------------------------------------------------- layer constants

\* rbm.initial_momentum and rbm.final_momentum: two distinct values, both
\* different from the momentum of a freshly constructed layer.
initial_momentum == 5

final_momentum == 9

\* The values rbm.final_momentum_epoch is configured with.
FinalMomentumEpochs == {0, 1}

\* The learnable parameters of the layer, as abstract values.
Weights == {0, 1}

\* ------------------------------------------------------ floating point

RECURSIVE GCD(_, _)
GCD(a, b) == IF b = 0 THEN a ELSE GCD(b, a % b)

Abs(x) == IF x < 0 THEN -x ELSE x

Min(a, b) == IF a < b THEN a ELSE b

\* The rational n/d in lowest terms (d > 0).
Norm(n, d) ==
    LET g == GCD(Abs(n), d)
    IN  [num |-> n \div g, den |-> d \div g]

FromInt(n) == [num |-> n, den |-> 1]

Zero == FromInt(0)

NaN == [num |-> 0, den |-> 0]

Inf(s) == [num |-> IF s < 0 THEN -1 ELSE 1, den |-> 0]

IsFinite(x) == x.den > 0

\* x + y on floating point values.
FAdd(x, y) ==
    IF x = NaN \/ y = NaN THEN NaN
    ELSE IF ~IsFinite(x) /\ ~IsFinite(y) THEN (IF x = y THEN x ELSE NaN)
    ELSE IF ~IsFinite(x) THEN x
    ELSE IF ~IsFinite(y) THEN y
    ELSE Norm(x.num * y.den + y.num * x.den, x.den * y.den)

\* x /= k for a floating point x and an unsigned count k.
FDiv(x, k) ==
    IF x = NaN THEN NaN
    ELSE IF ~IsFinite(x) THEN x
    ELSE IF k = 0 THEN (IF x.num = 0 THEN NaN ELSE Inf(x.num))
    ELSE Norm(x.num, x.den * k)

\* ------------------------------------------------------------ sequences

RECURSIVE SumSeq(_)
SumSeq(s) == IF s = <<>> THEN 0 ELSE Head(s) + SumSeq(Tail(s))

\* The elements [from, to) of s, counted from 0 as iterators are.
Range(s, from, to) == SubSeq(s, from + 1, to)

\* All rearrangements of s.
Shuffles(s) ==
    IF s = <<>> THEN {<<>>}
    ELSE {[i \in 1..Len(s) |-> s[p[i]]] : p \in Permutations(1..Len(s))}

\* ------------------------------------------------------------- samples

\* The caller's i-th training sample.
Sample(i) == i

\* The clean (expected) mate of an input sample in denoising training.
Clean(v) == v + 100

\* rbm.free_energy(v) of the layer, for layers with the capability.
FreeEnergy(v) == -v

\* What the per-batch trainer may leave in the context.
TrainerOutputs ==
    { [batch_error |-> 1, batch_sparsity |-> 0],
      [batch_error |-> 2, batch_sparsity |-> 1] }

\* The levels of the noise argument: 0.0, strictly between, and >= 1.0.
NoiseLevels == {"none", "some", "all"}

\* --------------------------------------------------------------- state

VARIABLES
    cfg,              \* template parameters, layer traits, DLL_SILENT
    rbm,              \* the layer: momentum, weights, batch size, schedule
    batch_size,       \* rbm_trainer::batch_size
    total_batches,    \* rbm_trainer::total_batches
    last_error,       \* rbm_trainer::last_error
    batches,          \* rbm_trainer::batches
    samples,          \* rbm_trainer::samples
    pc,               \* position inside the running train call
    form,             \* which train overload is running
    max_epochs,       \* argument of the call
    epoch,            \* loop variable of the epoch loop
    noise,            \* argument of train_denoising_auto
    category,         \* iterator category of the caller's range
    caller_input,     \* [ifirst, ilast) of the caller
    caller_expected,  \* [efirst, elast) of the caller
    input_copy,       \* local vector input_copy
    expected_copy,    \* local vector expected_copy
    input_clean,      \* local vector input_clean (train_denoising_auto)
    iit,              \* train_sub: input cursor
    eit,              \* train_sub: expected cursor
    context,          \* rbm_training_context of the current epoch
    generator,        \* the data generator of a generator-based call
    ret,              \* <<value>> returned by the last completed call
    trace,            \* history: hooks, trainer invocations, corruptions
    batch_log,        \* history: batches handed to the trainer this epoch
    warnings          \* history: divisibility warnings printed by this call

vars ==
    << cfg, rbm, batch_size, total_batches, last_error, batches,
       samples, pc, form, max_epochs, epoch, noise, category, caller_input,
       caller_expected, input_copy, expected_copy, input_clean, iit, eit,
       context, generator, ret, trace, batch_log, warnings >>

engineVars == << batch_size, total_batches, last_error, batches, samples >>

dataVars == << caller_input, caller_expected, input_copy, expected_copy, input_clean >>

callVars == << form, max_epochs, noise, category >>

\* All configurations of the engine and its layer.
Configs ==
    [ has_shuffle : BOOLEAN, has_momentum : BOOLEAN, init_weights : BOOLEAN,
      free_energy : BOOLEAN, is_verbose : BOOLEAN, EnableWatcher : BOOLEAN,
      Denoising : BOOLEAN, DLL_SILENT : BOOLEAN ]

\* A default-constructed rbm_training_context.
NewContext ==
    [ reconstruction_error |-> Zero, sparsity |-> Zero, free_energy |-> Zero,
      batch_error |-> Zero, batch_sparsity |-> Zero ]

\* A generator that is not in use.
NoGenerator == [size |-> 0, current |-> 0, train |-> FALSE, shuffled |-> FALSE]

\* The state after constructing the layer and the engine.
InitWith(configs) ==
    /\ cfg \in configs
    /\ rbm \in [ momentum : {0}, weights : {0},
                 batch_size : 1..MaxBatchSize,
                 final_momentum_epoch : FinalMomentumEpochs ]
    /\ batch_size = 0
    /\ total_batches = 0
    /\ last_error = Zero
    /\ batches = 0
    /\ samples = 0
    /\ pc = "idle"
    /\ form = "none"
    /\ max_epochs = 0
    /\ epoch = 0
    /\ noise = "none"
    /\ category = "random_access"
    /\ caller_input = <<>>
    /\ caller_expected = <<>>
    /\ input_copy = <<>>
    /\ expected_copy = <<>>
    /\ input_clean = <<>>
    /\ iit = 0
    /\ eit = 0
    /\ context = NewContext
    /\ generator = NoGenerator
    /\ ret = <<>>
    /\ trace = <<>>
    /\ batch_log = <<>>
    /\ warnings = 0

\* ------------------------------------------------------------ history

\* One entry of trace: a name and two numbers.
Event(name, a, b) == <<name, a, b>>

\* Mutant of Notify: the hook is invoked whether or not the watcher is
\* enabled.
NotifyUnconditionally(name, a, b) == <<Event(name, a, b)>>

\* The watcher hook name(...) when the watcher is enabled, else nothing.
Notify(name, a, b) == IF cfg.EnableWatcher THEN <<Event(name, a, b)>> ELSE <<>>

\* ------------------------------------------------------------ prepare_it

\* The ranges train iterates over: the local copies for a shuffle-capable
\* layer, the caller's ranges otherwise; without Denoising the expected
\* iterators of a shuffle-capable layer are the input iterators.
InputRange ==
    IF form = "auto" \/ cfg.has_shuffle THEN input_copy ELSE caller_input

ExpectedRange ==
    IF form = "auto" THEN input_clean
    ELSE IF cfg.has_shuffle
         THEN (IF cfg.Denoising THEN expected_copy ELSE input_copy)
         ELSE caller_expected

\* prepare_it(ifirst, ilast, efirst, elast, ivec, evec).
PrepareIt(ci, ce) ==
    IF cfg.has_shuffle
    THEN /\ input_copy' = ci
         /\ expected_copy' = IF cfg.Denoising THEN ce ELSE <<>>
    ELSE /\ input_copy' = <<>>
         /\ expected_copy' = <<>>

\* The category of the iterators init_training is handed: those of the
\* local vector for a shuffle-capable layer, the caller's otherwise.
IteratorCategory(callers) == IF cfg.has_shuffle THEN "random_access" ELSE callers

\* --------------------------------------------------------- init_training

\* Whether init_training computes the size of its range: always for a
\* generator, only for random access iterators otherwise.
SizeKnown(f, cat) == f = "generator" \/ cat = "random_access"

\* Mutant of Warns: the remainder test inverted.
WarnsOnEvenSplit(f, cat, size, bs) ==
    SizeKnown(f, cat) /\ size % bs = 0 /\ ~cfg.DLL_SILENT

\* Whether init_training prints the divisibility warning.
Warns(f, cat, size, bs) == SizeKnown(f, cat) /\ size % bs # 0 /\ ~cfg.DLL_SILENT

\* Mutant of TotalBatches: the quotient is rounded up.
TotalBatchesRoundedUp(f, cat, size, bs) ==
    IF SizeKnown(f, cat) THEN (size + bs - 1) \div bs ELSE 0

\* total_batches as init_training sets it.
TotalBatches(f, cat, size, bs) == IF SizeKnown(f, cat) THEN size \div bs ELSE 0

\* Mutant of InitialError: init_training leaves last_error as it was.
InitialErrorStale == last_error

\* last_error as init_training sets it.
InitialError == Zero

\* The layer after init_training: rbm.momentum = rbm.initial_momentum.
ResetMomentum(r) == [r EXCEPT !.momentum = initial_momentum]

\* What init_training tells the watcher.
TrainingBegin == Notify("training_begin", 0, 0)

\* init_training(rbm, ...) on the engine, for a call of form f over size
\* samples reached through iterators of category cat.
InitTraining(f, cat, size) ==
    /\ batch_size' = rbm.batch_size
    /\ warnings' = IF Warns(f, cat, size, batch_size') THEN 1 ELSE 0
    /\ total_batches' = TotalBatches(f, cat, size, batch_size')
    /\ last_error' = InitialError

\* Mutant of InitWeights: the layer's init_weights is called whatever the
\* layer's traits say.
InitWeightsUngated(r, t) ==
    /\ \E w \in Weights : rbm' = [r EXCEPT !.weights = w]
    /\ trace' = IF cfg.init_weights THEN Append(t, Event("init_weights", 0, 0)) ELSE t

\* Mutant of InitWeights: rbm.init_weights is invoked on every layer.
InitWeightsOnEveryLayer(r, t) ==
    /\ \E w \in Weights : rbm' = [r EXCEPT !.weights = w]
    /\ trace' = Append(t, Event("init_weights", 0, 0))

\* init_weights(rbm, ...): a layer with the capability initialises its
\* parameters from the data, to values of its choosing; r and t are the
\* layer and the history before it.
InitWeights(r, t) ==
    IF cfg.init_weights
    THEN /\ \E w \in Weights : rbm' = [r EXCEPT !.weights = w]
         /\ trace' = Append(t, Event("init_weights", 0, 0))
    ELSE /\ rbm' = r
         /\ trace' = t

\* ----------------------------------------------------------- the calls

\* train(rbm, ifirst, ilast, efirst, elast, max_epochs) up to its epoch
\* loop: prepare_it, init_training, init_weights, get_trainer.  Without
\* Denoising the expected range is the input range (the four argument
\* overload); with it, the clean mates of the inputs.  categories are the
\* iterator categories of the ranges callers hand in.
Train(categories) ==
    /\ pc = "idle"
    /\ \E n \in 0..MaxSamples, e \in 0..MaxEpochs, cat \in categories :
         LET ci == [i \in 1..n |-> Sample(i)]
             ce == IF cfg.Denoising THEN [i \in 1..n |-> Clean(ci[i])] ELSE ci
         IN  /\ caller_input' = ci
             /\ caller_expected' = ce
             /\ category' = cat
             /\ PrepareIt(ci, ce)
             /\ max_epochs' = e
             /\ InitTraining("range", IteratorCategory(cat), n)
             /\ InitWeights(ResetMomentum(rbm), TrainingBegin)
    /\ form' = "range"
    /\ noise' = "none"
    /\ input_clean' = <<>>
    /\ generator' = NoGenerator
    /\ epoch' = 0
    /\ pc' = "epoch"
    /\ ret' = <<>>
    /\ batch_log' = <<>>
    /\ UNCHANGED << cfg, batches, samples, iit, eit, context >>

\* train(rbm, generator, max_epochs) up to its epoch loop.  The generator
\* holds size samples and serves them in batches of the layer's batch size.
TrainGenerator ==
    /\ pc = "idle"
    /\ \E n \in 0..MaxSamples, e \in 0..MaxEpochs :
         /\ generator' = [size |-> n, current |-> 0, train |-> FALSE, shuffled |-> FALSE]
         /\ max_epochs' = e
         /\ InitTraining("generator", "random_access", n)
         /\ InitWeights(ResetMomentum(rbm), TrainingBegin)
    /\ form' = "generator"
    /\ noise' = "none"
    /\ category' = "random_access"
    /\ caller_input' = <<>>
    /\ caller_expected' = <<>>
    /\ epoch' = 0
    /\ pc' = "epoch"
    /\ ret' = <<>>
    /\ batch_log' = <<>>
    /\ UNCHANGED << cfg, batches, samples, input_copy, expected_copy, input_clean,
                    iit, eit, context >>

\* train_denoising_auto(rbm, ifirst, ilast, max_epochs, noise) up to its
\* epoch loop.  cpp_assert(!Denoising) aborts a debug build and is compiled
\* out of a release build.
TrainDenoisingAuto(levels) ==
    /\ pc = "idle"
    /\ \E n \in 0..MaxAutoSamples, e \in 0..MaxEpochs, l \in levels, ndebug \in BOOLEAN :
         LET ci == [i \in 1..n |-> Sample(i)]
         IN  /\ caller_input' = ci
             /\ caller_expected' = ci
             /\ max_epochs' = e
             /\ noise' = l
             /\ IF cfg.Denoising /\ ~ndebug
                THEN /\ pc' = "aborted"
                     /\ input_clean' = <<>>
                     /\ input_copy' = <<>>
                     /\ trace' = <<>>
                     /\ warnings' = 0
                     /\ UNCHANGED << rbm, batch_size, total_batches, last_error >>
                ELSE /\ pc' = "epoch"
                     /\ input_clean' = ci
                     /\ input_copy' = [i \in 1..n |-> 0]
                     /\ InitTraining("auto", "random_access", n)
                     /\ InitWeights(ResetMomentum(rbm), TrainingBegin)
    /\ form' = "auto"
    /\ category' = "random_access"
    /\ expected_copy' = <<>>
    /\ generator' = NoGenerator
    /\ epoch' = 0
    /\ ret' = <<>>
    /\ batch_log' = <<>>
    /\ UNCHANGED << cfg, batches, samples, iit, eit, context >>

\* ---------------------------------------------------------- epoch loop

\* Mutant of LoopContinues: one epoch too many.
LoopContinuesOffByOne == epoch <= max_epochs

\* Mutant of LoopContinues: the loop gives up one epoch early.
LoopContinuesStopsEarly == epoch + 1 < max_epochs

\* The test of for (epoch = 0; epoch < max_epochs; ++epoch).
LoopContinues == epoch < max_epochs

\* Mutant of InitEpoch: init_epoch does not reset the counters.
InitEpochKeepsCounters ==
    /\ context' = NewContext
    /\ UNCHANGED << batches, samples >>
    /\ iit' = 0
    /\ eit' = 0

\* Mutant of InitEpoch: one context serves all epochs of the call.
InitEpochReusesContext ==
    /\ context' = context
    /\ batches' = 0
    /\ samples' = 0
    /\ iit' = 0
    /\ eit' = 0

\* rbm_training_context context; init_epoch(); and the cursors train_sub
\* starts from.
InitEpoch ==
    /\ context' = NewContext
    /\ batches' = 0
    /\ samples' = 0
    /\ iit' = 0
    /\ eit' = 0

\* Mutant of ShuffleOutcomes: each range is shuffled on its own.
ShuffleOutcomesUnpaired(ic, ec) ==
    IF ~cfg.has_shuffle THEN {<<ic, ec>>}
    ELSE IF cfg.Denoising
         THEN {<<s, t>> : s \in Shuffles(ic), t \in Shuffles(ec)}
         ELSE {<<s, ec>> : s \in Shuffles(ic)}

\* Mutant of ShuffleOutcomes: the layer's has_shuffle trait is not consulted.
ShuffleOutcomesUngated(ic, ec) ==
    IF cfg.Denoising
    THEN IF ic = <<>> THEN {<<ic, ec>>}
         ELSE { << [i \in 1..Len(ic) |-> ic[p[i]]],
                   [i \in 1..Len(ic) |-> ec[p[i]]] >> :
                p \in Permutations(1..Len(ic)) }
    ELSE {<<s, s>> : s \in Shuffles(ic)}

\* shuffle(input_first, input_last, expected_first, expected_last): the
\* possible contents <<input, expected>> of the two ranges afterwards.
\* cpp::parallel_shuffle performs the same swaps on both ranges; without
\* Denoising std::shuffle rearranges the one copy both iterator pairs name.
ShuffleOutcomes(ic, ec) ==
    IF ~cfg.has_shuffle THEN {<<ic, ec>>}
    ELSE IF cfg.Denoising
         THEN IF ic = <<>> THEN {<<ic, ec>>}
              ELSE { << [i \in 1..Len(ic) |-> ic[p[i]]],
                        [i \in 1..Len(ic) |-> ec[p[i]]] >> :
                     p \in Permutations(1..Len(ic)) }
         ELSE {<<s, ec>> : s \in Shuffles(ic)}

\* Mutant of StoreRanges: the iterators of train name the caller's ranges
\* on every layer.
StoreRangesInCaller(o) ==
    /\ caller_input' = o[1]
    /\ caller_expected' = o[2]
    /\ UNCHANGED << input_copy, expected_copy >>

\* The ranges the iterators of train name, after shuffle left o in them.
StoreRanges(o) ==
    IF cfg.has_shuffle
    THEN /\ input_copy' = o[1]
         /\ expected_copy' = IF cfg.Denoising THEN o[2] ELSE expected_copy
         /\ UNCHANGED << caller_input, caller_expected >>
    ELSE /\ caller_input' = o[1]
         /\ caller_expected' = o[2]
         /\ UNCHANGED << input_copy, expected_copy >>

\* One iteration of the loop of train begins: shuffle, new context,
\* init_epoch.
Shuffle ==
    /\ pc = "epoch"
    /\ form = "range"
    /\ LoopContinues
    /\ \E o \in ShuffleOutcomes(InputRange, ExpectedRange) : StoreRanges(o)
    /\ InitEpoch
    /\ batch_log' = <<>>
    /\ pc' = "train_sub"
    /\ UNCHANGED << cfg, rbm, batch_size, total_batches, last_error, callVars,
                    epoch, input_clean, generator, ret, trace, warnings >>

\* generator.reset() or generator.reset_shuffle(), by the layer's trait.
ResetOf(g) == [g EXCEPT !.current = 0, !.shuffled = cfg.has_shuffle]

\* generator.set_train().
SetTrain(g) == [g EXCEPT !.train = TRUE]

\* Mutant of ResetCall: the layer's has_shuffle trait is not consulted.
ResetCallUngated == "reset"

\* Which rewind the loop of the generator-based train calls.
ResetCall == IF cfg.has_shuffle THEN "reset_shuffle" ELSE "reset"

\* One iteration of the loop of the generator-based train begins: rewind
\* the generator, new context, init_epoch.
ResetGenerator ==
    /\ pc = "epoch"
    /\ form = "generator"
    /\ LoopContinues
    /\ generator' = SetTrain(ResetOf(generator))
    /\ trace' = trace \o <<Event(ResetCall, epoch, 0), Event("set_train", epoch, 0)>>
    /\ InitEpoch
    /\ batch_log' = <<>>
    /\ pc' = "train_sub"
    /\ UNCHANGED << cfg, rbm, batch_size, total_batches, last_error, callVars,
                    epoch, dataVars, ret, warnings >>

\* shuffle_direct(input_clean.begin(), input_clean.end()).
ShuffleDirect(clean) == IF cfg.has_shuffle THEN Shuffles(clean) ELSE {clean}

\* Mutant of Corruptions: the copy of the clean samples is left out, so
\* input_transformer works on what input_copy held.
CorruptionsInPlace(clean, level) ==
    { c \in [1..Len(clean) -> {0} \cup {input_copy[i] : i \in 1..Len(clean)}] :
        \A i \in 1..Len(clean) :
            /\ c[i] \in {0, input_copy[i]}
            /\ level = "none" => c[i] = input_copy[i]
            /\ level = "all" => c[i] = 0 }

\* input_transformer on every sample: v *= dist(g) < noise * 1000.0 ? 0 : 1
\* with dist uniform on [0, 1000).
Corruptions(clean, level) ==
    { c \in [1..Len(clean) -> {0} \cup {clean[i] : i \in 1..Len(clean)}] :
        \A i \in 1..Len(clean) :
            /\ c[i] \in {0, clean[i]}
            /\ level = "none" => c[i] = clean[i]
            /\ level = "all" => c[i] = 0 }

\* The number of elements of s that are zero.
Zeroed(s) == Cardinality({i \in DOMAIN s : s[i] = 0})

\* One iteration of the loop of train_denoising_auto begins: shuffle the
\* clean copy, copy it, corrupt the copy, new context, init_epoch.  The
\* history notes how many elements the corruption zeroed.
ShuffleAndCorrupt ==
    /\ pc = "epoch"
    /\ form = "auto"
    /\ LoopContinues
    /\ \E clean \in ShuffleDirect(input_clean) :
         /\ input_clean' = clean
         /\ input_copy' \in Corruptions(clean, noise)
    /\ InitEpoch
    /\ batch_log' = <<>>
    /\ pc' = "train_sub"
    /\ trace' = Append(trace, Event("corrupt", epoch, Zeroed(input_copy')))
    /\ UNCHANGED << cfg, rbm, batch_size, total_batches, last_error, callVars,
                    epoch, caller_input, caller_expected, expected_copy, generator,
                    ret, warnings >>

\* ------------------------------------------------------------ train_batch

\* The context after trainer->train_batch left out in it and the engine
\* accumulated the batch.
Accumulate(c, out, input_batch) ==
    LET c1 == [c EXCEPT !.batch_error = FromInt(out.batch_error),
                        !.batch_sparsity = FromInt(out.batch_sparsity)]
        c2 == [c1 EXCEPT !.reconstruction_error = FAdd(@, c1.batch_error),
                         !.sparsity = FAdd(@, c1.batch_sparsity)]
        fe == SumSeq([i \in 1..Len(input_batch) |-> FreeEnergy(input_batch[i])])
    IN  IF cfg.EnableWatcher /\ cfg.free_energy
        THEN [c2 EXCEPT !.free_energy = FAdd(@, FromInt(fe))]
        ELSE c2

\* train_batch(...): count the batch, run the trainer on it (which updates
\* the weights and sets batch_error and batch_sparsity), accumulate, notify.
\* pre and post are what the calling loop did around the call.
TrainBatch(input_batch, expected_batch, pre, post) ==
    /\ batches' = batches + 1
    /\ \E out \in TrainerOutputs, w \in Weights :
         /\ rbm' = [rbm EXCEPT !.weights = w]
         /\ context' = Accumulate(context, out, input_batch)
         /\ batch_log' = Append(batch_log,
                [input |-> input_batch, expected |-> expected_batch,
                 batch_error |-> out.batch_error,
                 batch_sparsity |-> out.batch_sparsity])
    /\ trace' = trace \o pre
                      \o <<Event("train_batch", epoch, Len(input_batch))>>
                      \o (IF cfg.EnableWatcher /\ cfg.is_verbose
                          THEN <<Event("batch_end", batches', total_batches)>>
                          ELSE <<>>)
                      \o post

\* --------------------------------------------------------------- train_sub

\* generator.has_next_batch().
HasNextBatch(g) == g.current < g.size

\* generator.data_batch() and generator.label_batch().
DataBatch(g) ==
    [i \in 1..Min(rbm.batch_size, g.size - g.current) |-> Sample(g.current + i)]

LabelBatch(g) == DataBatch(g)

\* generator.next_batch().
NextBatch(g) == [g EXCEPT !.current = @ + rbm.batch_size]

\* What generator.has_next_batch() answered to the loop of train_sub in
\* epoch e, as an entry of the history.
AskedNextBatch(g, e) == Event("has_next_batch", e, IF HasNextBatch(g) THEN 1 ELSE 0)

\* Mutant of TrainSubDone: the range loop stops before a short last batch.
TrainSubDoneDropsRemainder ==
    IF form = "generator" THEN ~HasNextBatch(generator)
    ELSE Len(InputRange) - iit < batch_size

\* Mutant of TrainSubDone: the generator loop stops before a short last
\* batch, although the generator has one.
TrainSubDoneTruncatesGenerator ==
    IF form = "generator" THEN generator.size - generator.current < batch_size
    ELSE iit = Len(InputRange)

\* Whether the loop of train_sub has ended.
TrainSubDone ==
    IF form = "generator" THEN ~HasNextBatch(generator)
    ELSE iit = Len(InputRange)

\* Mutant of BatchLength: the inner loop tests i <= batch_size.
BatchLengthOneMore == Min(batch_size + 1, Len(InputRange) - iit)

\* The number of samples the inner loop of train_sub steps over.
BatchLength == Min(batch_size, Len(InputRange) - iit)

\* Mutant of TrainSub: every expected batch starts at expected_first.
TrainSubExpectedFromStart ==
    /\ pc = "train_sub"
    /\ form \in {"range", "auto"}
    /\ ~TrainSubDone
    /\ iit' = iit + BatchLength
    /\ eit' = BatchLength
    /\ samples' = samples + BatchLength
    /\ TrainBatch(Range(InputRange, iit, iit'), Range(ExpectedRange, 0, eit'),
                  <<>>, <<>>)
    /\ UNCHANGED << cfg, batch_size, total_batches, last_error, pc, callVars,
                    epoch, dataVars, generator, ret, warnings >>

\* One iteration of while (iit != end) of the range-based train_sub.
TrainSub ==
    /\ pc = "train_sub"
    /\ form \in {"range", "auto"}
    /\ ~TrainSubDone
    /\ iit' = iit + BatchLength
    /\ eit' = eit + BatchLength
    /\ samples' = samples + BatchLength
    /\ TrainBatch(Range(InputRange, iit, iit'), Range(ExpectedRange, eit, eit'),
                  <<>>, <<>>)
    /\ UNCHANGED << cfg, batch_size, total_batches, last_error, pc, callVars,
                    epoch, dataVars, generator, ret, warnings >>

\* One iteration of while (generator.has_next_batch()) of train_sub.
TrainSubGenerator ==
    /\ pc = "train_sub"
    /\ form = "generator"
    /\ ~TrainSubDone
    /\ TrainBatch(DataBatch(generator), LabelBatch(generator),
                  <<AskedNextBatch(generator, epoch)>>,
                  <<Event("next_batch", epoch, 0)>>)
    /\ generator' = NextBatch(generator)
    /\ UNCHANGED << cfg, batch_size, total_batches, last_error, samples, pc,
                    callVars, epoch, dataVars, iit, eit, ret, warnings >>

\* ---------------------------------------------------------- finalize

\* Mutant of MomentumAfter: the switch comes one epoch early.
MomentumAfterEarly(e) ==
    IF cfg.has_momentum /\ e + 1 = rbm.final_momentum_epoch
    THEN final_momentum
    ELSE rbm.momentum

\* The momentum of the layer after finalize_epoch(e, ...).
MomentumAfter(e) ==
    IF cfg.has_momentum /\ e = rbm.final_momentum_epoch
    THEN final_momentum
    ELSE rbm.momentum

\* The context after finalize_epoch averaged it.
Averaged(c) ==
    [c EXCEPT !.reconstruction_error = FDiv(@, batches),
              !.sparsity = FDiv(@, batches),
              !.free_energy = FDiv(@, samples)]

\* Mutant of SavedError: the epochs' errors add up.
SavedErrorRunningSum(c) == FAdd(last_error, c.reconstruction_error)

\* last_error after finalize_epoch, c being the averaged context.
SavedError(c) == c.reconstruction_error

\* finalize_epoch(epoch, context, rbm) and the ++epoch of the loop.
FinalizeEpoch ==
    /\ pc = "train_sub"
    /\ TrainSubDone
    /\ context' = Averaged(context)
    /\ rbm' = [rbm EXCEPT !.momentum = MomentumAfter(epoch)]
    /\ trace' = trace \o (IF form = "generator"
                           THEN <<AskedNextBatch(generator, epoch)>>
                           ELSE <<>>)
                      \o Notify("epoch_end", epoch, 0)
    /\ last_error' = SavedError(context')
    /\ epoch' = epoch + 1
    /\ pc' = "epoch"
    /\ UNCHANGED << cfg, batch_size, total_batches, batches, samples, callVars,
                    dataVars, iit, eit, generator, ret, batch_log, warnings >>

\* The loop of train has ended: finalize_training(rbm) yields the value
\* train returns.
FinalizeTraining ==
    /\ pc = "epoch"
    /\ ~LoopContinues
    /\ trace' = trace \o Notify("training_end", 0, 0)
    /\ ret' = <<last_error>>
    /\ pc' = "returned"
    /\ UNCHANGED << cfg, rbm, engineVars, callVars, epoch, dataVars, iit, eit,
                    context, generator, batch_log, warnings >>

\* train returns to its caller: its arguments and locals go out of scope;
\* the engine and the layer stay as they are, ready for the next call.
Return ==
    /\ pc = "returned"
    /\ pc' = "idle"
    /\ form' = "none"
    /\ max_epochs' = 0
    /\ epoch' = 0
    /\ noise' = "none"
    /\ category' = "random_access"
    /\ caller_input' = <<>>
    /\ caller_expected' = <<>>
    /\ input_copy' = <<>>
    /\ expected_copy' = <<>>
    /\ input_clean' = <<>>
    /\ iit' = 0
    /\ eit' = 0
    /\ context' = NewContext
    /\ generator' = NoGenerator
    /\ trace' = <<>>
    /\ batch_log' = <<>>
    /\ warnings' = 0
    /\ UNCHANGED << cfg, rbm, engineVars, ret >>

\* ------------------------------------------------------- specifications

\* The engine of a layer without shuffling, used through all three calls
\* on random access ranges; train_denoising_auto with no or full corruption.
MainConfigs ==
    {c \in Configs : ~c.has_shuffle /\ ~c.Denoising /\ c.is_verbose /\ c.free_energy
                     /\ ~c.DLL_SILENT}

Init == InitWith(MainConfigs)

Next ==
    \/ Train({"random_access"})
    \/ TrainGenerator
    \/ TrainDenoisingAuto({"none", "all"})
    \/ Shuffle
    \/ ResetGenerator
    \/ ShuffleAndCorrupt
    \/ TrainSub
    \/ TrainSubGenerator
    \/ FinalizeEpoch
    \/ FinalizeTraining
    \/ Return

Spec == Init /\ [][Next]_vars

\* The range-based train of a shuffle-capable layer, with and without
\* Denoising, unobserved.
ShuffleConfigs ==
    {c \in Configs : c.has_shuffle /\ ~c.EnableWatcher /\ ~c.is_verbose
                     /\ ~c.free_energy /\ ~c.has_momentum /\ ~c.init_weights
                     /\ ~c.DLL_SILENT}

InitShuffle == InitWith(ShuffleConfigs)

NextShuffle ==
    \/ Train({"random_access"})
    \/ Shuffle
    \/ TrainSub
    \/ FinalizeEpoch
    \/ FinalizeTraining
    \/ Return

SpecShuffle == InitShuffle /\ [][NextShuffle]_vars

\* The range-based train on ranges of either iterator category, of layers
\* with and without shuffling, in builds with and without DLL_SILENT,
\* unobserved.
WarnConfigs ==
    {c \in Configs : ~c.Denoising /\ ~c.EnableWatcher /\ ~c.is_verbose
                     /\ ~c.free_energy /\ ~c.has_momentum /\ ~c.init_weights}

InitWarn == InitWith(WarnConfigs)

NextWarn ==
    \/ Train({"random_access", "forward"})
    \/ Shuffle
    \/ TrainSub
    \/ FinalizeEpoch
    \/ FinalizeTraining
    \/ Return

SpecWarn == InitWarn /\ [][NextWarn]_vars

\* train_denoising_auto at every noise level, of layers with and without
\* shuffling, unobserved.
AutoConfigs ==
    {c \in Configs : ~c.Denoising /\ ~c.EnableWatcher /\ ~c.is_verbose
                     /\ ~c.free_energy /\ ~c.has_momentum /\ ~c.init_weights
                     /\ ~c.DLL_SILENT}

InitAuto == InitWith(AutoConfigs)

NextAuto ==
    \/ TrainDenoisingAuto(NoiseLevels)
    \/ ShuffleAndCorrupt
    \/ TrainSub
    \/ FinalizeEpoch
    \/ FinalizeTraining
    \/ Return

SpecAuto == InitAuto /\ [][NextAuto]_vars

\* train_denoising_auto without corruption on engines with Denoising, of
\* watched layers without shuffling, in builds with and without
\* assertions.
AssertConfigs ==
    {c \in Configs : c.Denoising /\ ~c.has_shuffle /\ c.EnableWatcher
                     /\ ~c.is_verbose /\ ~c.free_energy /\ ~c.DLL_SILENT}

InitAssert == InitWith(AssertConfigs)

NextAssert ==
    \/ TrainDenoisingAuto({"none"})
    \/ ShuffleAndCorrupt
    \/ TrainSub
    \/ FinalizeEpoch
    \/ FinalizeTraining
    \/ Return

SpecAssert == InitAssert /\ [][NextAssert]_vars

\* The generator-based train of layers with and without shuffling,
\* unobserved.
GeneratorConfigs ==
    {c \in Configs : ~c.Denoising /\ ~c.EnableWatcher /\ ~c.is_verbose
                     /\ ~c.free_energy /\ ~c.has_momentum /\ ~c.init_weights
                     /\ ~c.DLL_SILENT}

InitGenerator == InitWith(GeneratorConfigs)

NextGenerator ==
    \/ TrainGenerator
    \/ ResetGenerator
    \/ TrainSubGenerator
    \/ FinalizeEpoch
    \/ FinalizeTraining
    \/ Return

SpecGenerator == InitGenerator /\ [][NextGenerator]_vars

\* The steps a running train call takes by itself: a sequential program
\* that has been called executes its next statement.
Run ==
    \/ Shuffle
    \/ ResetGenerator
    \/ ShuffleAndCorrupt
    \/ TrainSub
    \/ TrainSubGenerator
    \/ FinalizeEpoch
    \/ FinalizeTraining

\* One watched layer without shuffling, used through all three calls, each
\* of which keeps running once called.
LiveConfigs ==
    {c \in MainConfigs : c.EnableWatcher /\ c.has_momentum /\ ~c.init_weights}

InitLive == InitWith(LiveConfigs)

SpecLive == InitLive /\ [][Next]_vars /\ WF_vars(Run)

\* ------------------------------------------------------------- properties

\* A train call is past its prologue and has not yet left.
InRun == pc \in {"epoch", "train_sub", "returned"}

\* The number of samples of the running range-based call.
N == Len(caller_input)

\* The positions of trace holding the event name.
Positions(name) == {i \in DOMAIN trace : trace[i][1] = name}

\* The trainer invocations of epoch k, as positions of trace.
TrainerCalls(k) == {i \in Positions("train_batch") : trace[i][2] = k}

CeilDiv(n, b) == (n + b - 1) \div b

\* The k-th (from 0) run of at most b elements of s.
Chunk(s, k, b) == Range(s, k * b, Min((k + 1) * b, Len(s)))

\* The batch errors and sparsities the trainer set in the current epoch.
BatchErrors == [i \in DOMAIN batch_log |-> batch_log[i].batch_error]

BatchSparsities == [i \in DOMAIN batch_log |-> batch_log[i].batch_sparsity]

\* The arithmetic mean of a non-empty sequence of integers.
Mean(s) == Norm(SumSeq(s), Len(s))

C2_ZeroEpochs ==
    (pc = "returned" /\ max_epochs = 0 /\ form \in {"range", "generator"}) =>
        /\ ret = <<Zero>>
        /\ Positions("train_batch") = {}
        /\ Positions("epoch_end") = {}
        /\ Positions("batch_end") = {}
        /\ \A i \in DOMAIN trace :
              trace[i][1] \in {"training_begin", "init_weights", "training_end"}

\* A 0-epoch generator-based call has returned on a watched engine that an
\* earlier call left with a non-zero batch count.
C2_Witness ==
    /\ pc = "returned" /\ max_epochs = 0 /\ form = "generator"
    /\ cfg.EnableWatcher /\ batches > 0
    /\ Positions("training_begin") # {} /\ Positions("training_end") # {}

\* C3 as stated: no step of a train call with 0 epochs changes the layer's
\* weights, whatever the layer's capabilities.
C3_ZeroEpochsKeepWeights ==
    [][max_epochs' = 0 => rbm'.weights = rbm.weights]_vars

\* C3 amended: a step of a train call with 0 epochs changes the layer's
\* weights only if the layer declares init_weights and the step is the
\* call's prologue, where the layer's own init_weights runs once.
C3_ZeroEpochsOnlyInitWeights ==
    [][(max_epochs' = 0 /\ rbm'.weights # rbm.weights) =>
            /\ cfg.init_weights
            /\ pc = "idle"
            /\ Cardinality({i \in DOMAIN trace' : trace'[i][1] = "init_weights"}) = 1]_vars

\* A 0-epoch call has returned on a layer without init_weights whose
\* weights an earlier call trained.
C3_Witness ==
    /\ pc = "returned" /\ max_epochs = 0 /\ ~cfg.init_weights
    /\ rbm.weights # 0

\* C4: on a momentum-capable layer, in every state of a train call the
\* momentum is initial_momentum up to and including the epoch with index
\* final_momentum_epoch, and final_momentum once that epoch is finalized.
C4_MomentumSchedule ==
    (cfg.has_momentum /\ InRun) =>
        rbm.momentum = IF epoch > rbm.final_momentum_epoch
                       THEN final_momentum
                       ELSE initial_momentum

\* The second epoch of a call is training with final_momentum after the
\* first was finalized at final_momentum_epoch = 0.
C4_Witness ==
    /\ cfg.has_momentum /\ pc = "train_sub" /\ epoch = 1
    /\ rbm.final_momentum_epoch = 0 /\ rbm.momentum = final_momentum
    /\ batch_log # <<>>

\* C5: with the watcher enabled, the k-th epoch_end notification of a call
\* carries epoch index k (from 0), the trainer invocations before it are
\* those of the epochs up to k, and a returned call of E epochs has
\* notified epoch_end E times.
C5_EpochEndOrder ==
    cfg.EnableWatcher =>
        /\ \A i \in Positions("epoch_end") :
              /\ trace[i][2] = Cardinality({j \in Positions("epoch_end") : j < i})
              /\ \A j \in Positions("train_batch") :
                    (j < i) <=> (trace[j][2] <= trace[i][2])
        /\ pc = "returned" => Cardinality(Positions("epoch_end")) = max_epochs

\* A watched two-epoch call that trained in both epochs has returned.
C5_Witness ==
    /\ cfg.EnableWatcher /\ pc = "returned" /\ max_epochs = 2
    /\ TrainerCalls(0) # {} /\ TrainerCalls(1) # {}
    /\ Cardinality(Positions("epoch_end")) = 2

\* C6: once an epoch with at least one batch is finalized, the context's
\* reconstruction_error and sparsity are the arithmetic means of the
\* batch_error and batch_sparsity values the trainer set in that epoch.
C6_EpochMeans ==
    (pc \in {"epoch", "returned"} /\ epoch > 0 /\ batch_log # <<>>) =>
        /\ context.reconstruction_error = Mean(BatchErrors)
        /\ context.sparsity = Mean(BatchSparsities)

\* A second epoch of two batches with errors 1 and 2 has been finalized.
C6_Witness ==
    /\ pc = "epoch" /\ epoch = 2
    /\ BatchErrors = <<1, 2>>
    /\ context.reconstruction_error = Norm(3, 2)

\* C7: a train call of at least one epoch returns the mean of the batch
\* errors of its last epoch (the floating point quotient of their sum by
\* their number), whatever earlier epochs and earlier calls produced.
C7_ReturnsLastEpochMean ==
    (pc = "returned" /\ max_epochs >= 1) =>
        ret = <<FDiv(FromInt(SumSeq(BatchErrors)), Len(batch_log))>>

\* A two-epoch train_denoising_auto call whose last epoch had batch
\* errors 1 and 2 has returned 3/2.
C7_Witness ==
    /\ pc = "returned" /\ max_epochs = 2 /\ form = "auto"
    /\ BatchErrors = <<1, 2>> /\ ret = <<Norm(3, 2)>>

\* The (input, expected) pairs the caller handed in.
OriginalPairs == {<<caller_input[j], caller_expected[j]>> : j \in DOMAIN caller_input}

\* C8: on a shuffle-capable layer in Denoising mode, in every epoch the
\* shuffled copies hold at each position an original (input, expected)
\* pair, all of them, and every batch handed to the trainer pairs inputs
\* and expected values at equal offsets as the caller did.
C8_PairsPreserved ==
    (cfg.has_shuffle /\ cfg.Denoising /\ form = "range" /\ InRun /\ pc # "returned") =>
        /\ Len(input_copy) = N
        /\ Len(expected_copy) = N
        /\ {<<input_copy[i], expected_copy[i]>> : i \in 1..N} = OriginalPairs
        /\ \A k \in DOMAIN batch_log :
              /\ Len(batch_log[k].input) = Len(batch_log[k].expected)
              /\ \A i \in DOMAIN batch_log[k].input :
                    <<batch_log[k].input[i], batch_log[k].expected[i]>> \in OriginalPairs

\* A batch was trained from copies that are not in the caller's order.
C8_Witness ==
    /\ cfg.has_shuffle /\ cfg.Denoising /\ form = "range" /\ pc = "train_sub"
    /\ input_copy # caller_input
    /\ batch_log # <<>>

\* The samples a caller of N samples handed in, in the caller's order.
OriginalInput == [i \in 1..N |-> Sample(i)]

\* C9: on a layer without has_shuffle, the batches a range-based call hands
\* to the trainer in any epoch are determined by the caller's data and the
\* batch size alone: the k-th batch is the k-th run of batch_size samples
\* in the caller's order, so equal calls see equal batch sequences.
C9_CallerOrder ==
    (~cfg.has_shuffle /\ form = "range" /\ InRun) =>
        /\ caller_input = OriginalInput
        /\ \A k \in DOMAIN batch_log :
              /\ batch_log[k].input = Chunk(OriginalInput, k - 1, rbm.batch_size)
              /\ batch_log[k].expected = Chunk(caller_expected, k - 1, rbm.batch_size)
        /\ (pc \in {"epoch", "returned"} /\ epoch > 0) =>
              Len(batch_log) = CeilDiv(N, rbm.batch_size)

\* The second epoch of a call on a layer without has_shuffle has handed
\* the trainer two batches.
C9_Witness ==
    /\ ~cfg.has_shuffle /\ form = "range" /\ pc = "train_sub" /\ epoch = 1
    /\ Len(batch_log) = 2 /\ N = 3

\* C10 as stated: a range-based call has printed the divisibility warning
\* once if N mod B # 0 and never otherwise, whatever its epoch count.
C10_WarnsWhenRemainder ==
    (form = "range" /\ InRun) =>
        warnings = IF N % rbm.batch_size # 0 THEN 1 ELSE 0

\* C10 amended: a range-based call has printed the divisibility warning
\* once if N mod B # 0, the build is not DLL_SILENT and the range is
\* iterated through random access iterators (always so on a shuffle-capable
\* layer), and never otherwise, whatever its epoch count.
C10_WarnsWhenRemainderSeen ==
    (form = "range" /\ InRun) =>
        warnings = IF /\ N % rbm.batch_size # 0
                      /\ ~cfg.DLL_SILENT
                      /\ (cfg.has_shuffle \/ category = "random_access")
                   THEN 1 ELSE 0

\* A two-epoch call over 3 samples in batches of 2 has returned after one
\* warning.
C10_Witness ==
    /\ form = "range" /\ pc = "returned" /\ max_epochs = 2
    /\ N = 3 /\ rbm.batch_size = 2 /\ warnings = 1

\* The name of the entry of trace at position i, "" outside trace.
NameAt(i) == IF i \in DOMAIN trace THEN trace[i][1] ELSE ""

\* The position of the first entry after i that is not a batch_end, and of
\* the last one before i.
After(i) == IF NameAt(i + 1) = "batch_end" THEN i + 2 ELSE i + 1

Before(i) == IF NameAt(i - 1) = "batch_end" THEN i - 2 ELSE i - 1

\* The samples a generator of the running call serves, in its order.
GeneratorData == [i \in 1..generator.size |-> Sample(i)]

\* The entries of trace with the given name and epoch.
InEpoch(name, k) == {i \in Positions(name) : trace[i][2] = k}

\* C11: in a generator-based call, every has_next_batch() that answers
\* true is followed by one trainer invocation on the generator's current
\* data and label batch and then one next_batch(); a has_next_batch() that
\* answers false is followed by neither; no trainer invocation and no
\* next_batch() happens otherwise; and a finished epoch has handed the
\* trainer every batch the generator had.
C11_GeneratorProtocol ==
    (form = "generator" /\ InRun) =>
        /\ \A i \in Positions("has_next_batch") :
              IF trace[i][3] = 1
              THEN /\ NameAt(i + 1) = "train_batch"
                   /\ NameAt(After(i + 1)) = "next_batch"
              ELSE NameAt(i + 1) \notin {"train_batch", "next_batch"}
        /\ \A i \in Positions("train_batch") :
              /\ NameAt(i - 1) = "has_next_batch"
              /\ trace[i - 1][3] = 1
        /\ \A i \in Positions("next_batch") : NameAt(Before(i)) = "train_batch"
        /\ \A k \in DOMAIN batch_log :
              /\ batch_log[k].input = Chunk(GeneratorData, k - 1, rbm.batch_size)
              /\ batch_log[k].expected = Chunk(GeneratorData, k - 1, rbm.batch_size)
        /\ \A k \in 0..(epoch - 1) :
              /\ Cardinality(InEpoch("train_batch", k))
                    = Cardinality({i \in InEpoch("has_next_batch", k) : trace[i][3] = 1})
              /\ Cardinality(InEpoch("next_batch", k)) = Cardinality(InEpoch("train_batch", k))
              /\ Cardinality({i \in InEpoch("has_next_batch", k) : trace[i][3] = 0}) = 1
        /\ (pc \in {"epoch", "returned"} /\ epoch > 0) =>
              Len(batch_log) = CeilDiv(generator.size, rbm.batch_size)

\* A two-epoch generator-based call over 3 samples in batches of 2 has
\* returned after four trainer invocations.
C11_Witness ==
    /\ form = "generator" /\ pc = "returned" /\ max_epochs = 2
    /\ generator.size = 3 /\ rbm.batch_size = 2
    /\ Cardinality(Positions("next_batch")) = 4

\* C12: in every state of a train call, the layer's init_weights has been
\* invoked once if the layer declares the capability and never otherwise;
\* the invocation follows training_begin directly and precedes every
\* trainer invocation, generator query and epoch_end of the call.
C12_InitWeightsOnce ==
    InRun =>
        /\ Cardinality(Positions("init_weights")) = IF cfg.init_weights THEN 1 ELSE 0
        /\ \A i \in Positions("init_weights") :
              /\ i = IF cfg.EnableWatcher THEN 2 ELSE 1
              /\ cfg.EnableWatcher => NameAt(1) = "training_begin"
              /\ \A j \in DOMAIN trace :
                    trace[j][1] \in {"train_batch", "has_next_batch", "epoch_end"} => i < j

\* A watched two-epoch call on a layer with init_weights has returned
\* after training in both epochs.
C12_Witness ==
    /\ cfg.init_weights /\ cfg.EnableWatcher /\ pc = "returned" /\ max_epochs = 2
    /\ TrainerCalls(0) # {} /\ TrainerCalls(1) # {}
    /\ Cardinality(Positions("init_weights")) = 1

\* The names of the watcher's hooks.
WatcherHooks == {"training_begin", "training_end", "epoch_end", "batch_end"}

\* C13: with the watcher enabled, in every state of a train call
\* training_begin has been notified once, first of all; training_end has
\* not been notified before the call returns and has been notified once,
\* last of all, when it has returned.  With the watcher disabled no hook
\* of the watcher has been invoked.
C13_BeginFirstEndLast ==
    InRun =>
        IF cfg.EnableWatcher
        THEN /\ Positions("training_begin") = {1}
             /\ Positions("training_end") =
                    IF pc = "returned" THEN {Len(trace)} ELSE {}
        ELSE \A i \in DOMAIN trace : trace[i][1] \notin WatcherHooks

\* A watched call on a layer with init_weights has returned after an
\* epoch_end and a trainer invocation.
C13_Witness ==
    /\ cfg.EnableWatcher /\ cfg.init_weights /\ pc = "returned"
    /\ Positions("epoch_end") # {} /\ Positions("train_batch") # {}
    /\ NameAt(1) = "training_begin" /\ NameAt(Len(trace)) = "training_end"

\* C14: a train call that has started (range-based, generator-based over a
\* generator that runs out of batches, or train_denoising_auto) eventually
\* returns, and has then run exactly max_epochs epochs.
C14_Terminates ==
    (pc \in {"epoch", "train_sub"}) ~> (pc = "returned" /\ epoch = max_epochs)

\* A two-epoch generator-based call over 3 samples in batches of 1 has
\* returned.
C14_Witness ==
    /\ pc = "returned" /\ form = "generator" /\ max_epochs = 2 /\ epoch = 2
    /\ generator.size = 3 /\ rbm.batch_size = 1
    /\ Cardinality(InEpoch("train_batch", 1)) = 3

\* C15: on an engine with Denoising, the only step train_denoising_auto
\* ever takes is the failing assertion at its entry, which leaves the
\* layer, the engine and the watcher untouched: no training_begin, no
\* momentum reset, no weight initialization, no trainer invocation.
C15_AssertionFailsFast ==
    [][(cfg.Denoising /\ form' = "auto") =>
            /\ pc = "idle"
            /\ pc' = "aborted"
            /\ rbm' = rbm
            /\ trace' = <<>>
            /\ UNCHANGED engineVars]_vars

\* The input samples handed to the trainer in the batches log, in order.
RECURSIVE HandedInputs(_)
HandedInputs(log) ==
    IF log = <<>> THEN <<>> ELSE Head(log).input \o HandedInputs(Tail(log))

FreeEnergySum(s) == SumSeq([i \in DOMAIN s |-> FreeEnergy(s[i])])

\* C17: when an epoch of a range-based or generator-based call is
\* finalized, the samples counter equals the number of samples handed to
\* the trainer in that epoch and, where the free energy is gathered, the
\* context's free_energy is the sum of the free energy of those samples
\* divided by their number.
C17_SamplesDivisor ==
    (pc \in {"epoch", "returned"} /\ epoch > 0 /\ form \in {"range", "generator"}) =>
        /\ samples = Len(HandedInputs(batch_log))
        /\ (cfg.EnableWatcher /\ cfg.free_energy) =>
              context.free_energy =
                 FDiv(FromInt(FreeEnergySum(HandedInputs(batch_log))),
                      Len(HandedInputs(batch_log)))

\* C18: when the first trainer invocation of an epoch is about to happen,
\* the context's reconstruction_error, sparsity and free_energy and the
\* engine's batches and samples are zero; and while an epoch trains, the
\* accumulators hold the batch values of that epoch alone.
C18_AccumulatorsStartAtZero ==
    (pc = "train_sub") =>
        /\ batch_log = <<>> =>
              /\ context.reconstruction_error = Zero
              /\ context.sparsity = Zero
              /\ context.free_energy = Zero
              /\ batches = 0
              /\ samples = 0
        /\ batches = Len(batch_log)
        /\ context.reconstruction_error = FromInt(SumSeq(BatchErrors))
        /\ context.sparsity = FromInt(SumSeq(BatchSparsities))

\* The second epoch of a call is about to train its first batch after a
\* first epoch that left a mean error of 3/2.
C18_Witness ==
    /\ pc = "train_sub" /\ epoch = 1 /\ batch_log = <<>>
    /\ ~TrainSubDone
    /\ last_error = Norm(3, 2)

\* C19: in every state of a range-based train or train_denoising_auto
\* call over input and expected ranges of equal length, the input and the
\* expected cursor are at the same offset, not past the end of the
\* expected range, and the k-th batch handed to the trainer is the k-th
\* run of batch_size elements of the input range paired with the k-th run
\* of the expected range: same offset, same length.
C19_CursorsInLockstep ==
    (form \in {"range", "auto"} /\ InRun /\ Len(InputRange) = Len(ExpectedRange)) =>
        /\ iit = eit
        /\ eit <= Len(ExpectedRange)
        /\ \A k \in DOMAIN batch_log :
              /\ Len(batch_log[k].input) = Len(batch_log[k].expected)
              /\ batch_log[k].input = Chunk(InputRange, k - 1, batch_size)
              /\ batch_log[k].expected = Chunk(ExpectedRange, k - 1, batch_size)

\* train_denoising_auto with full corruption has handed the trainer two
\* batches of one zeroed input and its clean mate.
C19_Witness ==
    /\ form = "auto" /\ noise = "all" /\ pc = "train_sub"
    /\ Len(batch_log) = 2 /\ eit = 2
    /\ batch_log[2].input = <<0>> /\ batch_log[2].expected = <<input_clean[2]>>

\* C20: in every state of a train_denoising_auto call, the clean copy
\* holds the caller's samples, rearranged only by the shuffle; every
\* element of the corrupted input is zero or the clean element at its
\* position, and so is every batch handed to the trainer against its
\* expected batch; the input has been regenerated once per epoch begun;
\* with noise = 0 the regenerated input equals the clean copy.
C20_CorruptedFromClean ==
    (form = "auto" /\ InRun) =>
        /\ Len(input_clean) = N
        /\ Len(input_copy) = N
        /\ {input_clean[i] : i \in 1..N} = {caller_input[i] : i \in 1..N}
        /\ ~cfg.has_shuffle => input_clean = caller_input
        /\ \A i \in 1..N : input_copy[i] \in {0, input_clean[i]}
        /\ \A k \in DOMAIN batch_log :
              /\ batch_log[k].expected = Chunk(input_clean, k - 1, batch_size)
              /\ \A i \in DOMAIN batch_log[k].input :
                    batch_log[k].input[i] \in {0, batch_log[k].expected[i]}
        /\ Cardinality(Positions("corrupt")) = epoch + IF pc = "train_sub" THEN 1 ELSE 0
        /\ (noise = "none" /\ Positions("corrupt") # {}) => input_copy = input_clean

\* The second epoch trains on two uncorrupted samples after a first epoch
\* at the same noise level that had zeroed both.
C20_Witness ==
    /\ form = "auto" /\ noise = "some" /\ pc = "train_sub" /\ epoch = 1
    /\ N = 2 /\ input_copy = input_clean /\ batch_log # <<>>
    /\ \E i \in Positions("corrupt") : trace[i][2] = 0 /\ trace[i][3] = 2

\* The rewinds of the generator in epoch k, as positions of trace.
Rewinds(k) == InEpoch("reset", k) \cup InEpoch("reset_shuffle", k)

\* The epochs a running call has begun so far.
EpochsBegun == 0..(IF pc = "train_sub" THEN epoch ELSE epoch - 1)

\* C21: in a generator-based call, every epoch begun has rewound the
\* generator once, by reset_shuffle() if the layer declares has_shuffle and
\* by reset() otherwise, with set_train() called once right after it, and
\* both precede every has_next_batch(), trainer invocation and
\* next_batch() of that epoch; no other rewind has happened.
C21_RewindOncePerEpoch ==
    (form = "generator" /\ InRun) =>
        /\ \A i \in Positions("reset") \cup Positions("reset_shuffle") :
              trace[i][2] \in EpochsBegun
        /\ \A k \in EpochsBegun :
              /\ Cardinality(Rewinds(k)) = 1
              /\ Cardinality(InEpoch("set_train", k)) = 1
              /\ \A i \in Rewinds(k) :
                    /\ trace[i][1] = IF cfg.has_shuffle THEN "reset_shuffle" ELSE "reset"
                    /\ NameAt(i + 1) = "set_train"
                    /\ trace[i + 1][2] = k
                    /\ \A j \in InEpoch("has_next_batch", k) \cup InEpoch("train_batch", k)
                                \cup InEpoch("next_batch", k) : i + 1 < j
        /\ pc = "train_sub" => generator.train

\* A two-epoch generator-based call on a shuffle-capable layer has
\* returned after training in both epochs.
C21_Witness ==
    /\ form = "generator" /\ cfg.has_shuffle /\ pc = "returned" /\ max_epochs = 2
    /\ Cardinality(Positions("reset_shuffle")) = 2
    /\ InEpoch("train_batch", 0) # {} /\ InEpoch("train_batch", 1) # {}

\* The number of samples of the data source of the running call.
RunSize == IF form = "generator" THEN generator.size ELSE N

\* C22 as stated: in every state of a train call, from init_training to
\* the return, batch_size is the layer's declared batch size and
\* total_batches is floor(size / batch_size).
C22_FixedBatchSizeAndFloor ==
    InRun =>
        /\ batch_size = rbm.batch_size
        /\ total_batches = RunSize \div batch_size

\* C22 amended: in every state of a train call, from init_training to the
\* return, batch_size is the layer's declared batch size, and
\* total_batches is floor(size / batch_size) if init_training was handed
\* a generator or random access iterators (always so on a shuffle-capable
\* layer) and 0 otherwise; neither changes during the call.
C22_FixedBatchSizeAndTotal ==
    InRun =>
        /\ batch_size = rbm.batch_size
        /\ total_batches =
              IF form = "generator" \/ cfg.has_shuffle \/ category = "random_access"
              THEN RunSize \div batch_size
              ELSE 0

\* A two-epoch call over 3 samples reached through forward iterators, in
\* batches of 2, has returned with total_batches 0.
C22_Witness ==
    /\ form = "range" /\ category = "forward" /\ ~cfg.has_shuffle
    /\ pc = "returned" /\ max_epochs = 2
    /\ N = 3 /\ batch_size = 2 /\ total_batches = 0
    /\ Cardinality(Positions("train_batch")) = 4

\* C23: in every state of a train call, every batch_end notified so far
\* directly follows a trainer invocation and carries a batch_index in
\* 1..total_batches; and with the watcher enabled on a verbose layer every
\* trainer invocation is followed by one batch_end.
C23_BatchEndWithinTotal ==
    InRun =>
        /\ \A i \in Positions("batch_end") :
              /\ NameAt(i - 1) = "train_batch"
              /\ trace[i][3] = total_batches
              /\ trace[i][2] \in 1..trace[i][3]
        /\ (cfg.EnableWatcher /\ cfg.is_verbose) =>
              \A i \in Positions("train_batch") : NameAt(i + 1) = "batch_end"

\* C24: in every state of a range-based train call or a
\* train_denoising_auto call, up to and including its return, the
\* caller's input and expected sequences hold the elements the caller
\* handed in, in the caller's order; on a shuffle-capable layer the
\* engine's copy holds those elements too.
C24_CallerSequencesKept ==
    (form \in {"range", "auto"} /\ InRun) =>
        /\ caller_input = OriginalInput
        /\ caller_expected =
              IF cfg.Denoising /\ form = "range"
              THEN [i \in 1..N |-> Clean(Sample(i))]
              ELSE OriginalInput
        /\ (cfg.has_shuffle /\ form = "range") =>
              {input_copy[i] : i \in DOMAIN input_copy} = {Sample(i) : i \in 1..N}

\* A two-epoch call on a shuffle-capable layer has returned with its copy
\* of the 3 samples in another order than the caller's.
C24_Witness ==
    /\ form = "range" /\ cfg.has_shuffle /\ pc = "returned" /\ max_epochs = 2
    /\ N = 3 /\ input_copy # caller_input
    /\ Cardinality(Positions("train_batch")) = 4

\* C25: whenever finalize_epoch is about to run, batches is at least 1 and
\* samples is at least 1, whatever the data source; and after it has run
\* the context's reconstruction_error, sparsity and free_energy, last_error
\* and the value train returns are finite numbers.
C25_NonZeroDivisors ==
    /\ (pc = "train_sub" /\ TrainSubDone) =>
          /\ batches >= 1
          /\ samples >= 1
    /\ (pc \in {"epoch", "returned"} /\ epoch > 0) =>
          /\ IsFinite(context.reconstruction_error)
          /\ IsFinite(context.sparsity)
          /\ IsFinite(context.free_energy)
          /\ IsFinite(last_error)
    /\ pc = "returned" => IsFinite(ret[1])

====
